---- MODULE Spec2Model ----
(***************************************************************************)
(* wraithswap-poc: the ASB monitor of src/main.rs.                         *)
(*                                                                         *)
(* A single loop polls the swap_states table of an SQLite file written by  *)
(* another process, keeps the last state it has seen of every swap in a    *)
(* map, and redraws the terminal on every iteration.  The model has the    *)
(* loop of main() cut at its await points and at the two places where it   *)
(* looks at the file system, the external writer and the file system as    *)
(* environment actions, and fetch_swaps and build_views as operators.      *)
(***************************************************************************)
EXTENDS Integers, Sequences, FiniteSets, TLC

\* ------------------------------------------------------------------ bounds

MaxRows == 3        \* rows the external writer appends to swap_states
MaxHandles == 2     \* distinct pool handles the model can tell apart
MaxLen == 3         \* length of the record lists given to build_views alone
MaxIdChars == 9     \* characters of the identifiers given to truncate_id alone

\* ------------------------------------------------------------ value domains

Ids == {"A", "B"}                        \* swap_id values
States == {"Started", "BtcRedeemed"}     \* state labels
\* entered_at is TEXT: a string of digits, compared as text ("9" > "10")
Times == {<<9>>, <<1, 0>>}

Handles == 1..MaxHandles
NoPool == 0                               \* pool: Option<SqlitePool> = None

SwapRow == [swap_id : Ids, state : States, entered_at : Times]

\* ----------------------------------------------------------------- helpers

Min(a, b) == IF a < b THEN a ELSE b

\* SQLite's BINARY collation on TEXT: bytewise, a proper prefix sorts first
TextLess(a, b) ==
    \E k \in 1..(Min(Len(a), Len(b)) + 1) :
        /\ \A j \in 1..(k - 1) : a[j] = b[j]
        /\ \/ k > Len(a) /\ k <= Len(b)
           \/ k <= Len(a) /\ k <= Len(b) /\ a[k] < b[k]

TextGeq(a, b) == ~TextLess(a, b)

Insert_replace(m, k, v) == [x \in {k} |-> v]

\* HashMap::insert
Insert(m, k, v) == [x \in (DOMAIN m) \cup {k} |-> IF x = k THEN v ELSE m[x]]

EmptyMap == [x \in {} |-> "Started"]

SeqsUpTo(S, n) == UNION {[1..k -> S] : k \in 0..n}

Maps == UNION {[D -> States] : D \in SUBSET Ids}

\* ------------------------------------------------------------- fetch_swaps

\* SELECT MAX(id) FROM swap_states GROUP BY swap_id
MaxIdPerSwap(t) ==
    {i \in DOMAIN t : \A j \in DOMAIN t : t[j].swap_id = t[i].swap_id => j <= i}

LatestIds_min(t) ==
    {i \in DOMAIN t : \A j \in DOMAIN t : t[j].swap_id = t[i].swap_id => j >= i}

\* WHERE id IN (SELECT MAX(id) ... GROUP BY swap_id)
LatestIds(t) == MaxIdPerSwap(t)

OrderedDesc_asc(x, y) == TextGeq(y, x)

\* ORDER BY entered_at DESC: x may stand before y
OrderedDesc(x, y) == TextGeq(x, y)

TableRead_stale(t) == SubSeq(t, 1, Len(t) - 1)

\* lines 107-114: every call runs the statement on the table as it is then
TableRead(t) == t

\* The result sets the query can return: the selected rows in an order that
\* is descending in entered_at; the order of rows with equal entered_at is
\* not fixed by the statement.
FetchSwaps(t) ==
    LET sel == LatestIds(t)
        n   == Cardinality(sel)
        ord == {f \in [1..n -> sel] :
                  /\ \A a, b \in 1..n : a # b => f[a] # f[b]
                  /\ \A a \in 1..n : a < n =>
                        OrderedDesc(t[f[a]].entered_at, t[f[a + 1]].entered_at)}
    IN  {[k \in 1..n |-> [swap_id    |-> t[f[k]].swap_id,
                          state      |-> t[f[k]].state,
                          entered_at |-> t[f[k]].entered_at]] : f \in ord}

\* ------------------------------------------------------------- build_views

Changed_firstSeen(row, prev) ==
    ~(row.swap_id \in DOMAIN prev /\ prev[row.swap_id] = row.state)

\* prev_state.is_some() && prev_state.as_deref() != Some(row.state)
Changed(row, prev) ==
    /\ row.swap_id \in DOMAIN prev
    /\ prev[row.swap_id] # row.state

Remember_ifAbsent(row, prev) ==
    IF row.swap_id \in DOMAIN prev THEN prev
    ELSE Insert(prev, row.swap_id, row.state)

\* prev.insert(row.swap_id.clone(), row.state.clone())
Remember(row, prev) == Insert(prev, row.swap_id, row.state)

\* the closure of build_views applied to one row
BuildStep(row, prev) ==
    [view |-> [swap_id    |-> row.swap_id,
               state      |-> row.state,
               entered_at |-> row.entered_at,
               changed    |-> Changed(row, prev)],
     prev |-> Remember(row, prev)]

RECURSIVE BuildFrom(_, _, _, _)
BuildFrom(rs, i, acc, prev) ==
    IF i > Len(rs) THEN [views |-> acc, prev |-> prev]
    ELSE LET s == BuildStep(rs[i], prev)
         IN  BuildFrom(rs, i + 1, Append(acc, s.view), s.prev)

\* rows.into_iter().map(..).collect(), with the map it leaves behind
BuildViews(rs, prev) == BuildFrom(rs, 1, <<>>, prev)

\* ------------------------------------------------------------- truncate_id

\* A &str is UTF-8: a sequence of characters of one byte ("a") or more (the
\* two bytes of U+00E9); "." is the character of the ellipsis.
Chars == {"a", "U+00E9"}

Utf8Len(c) == IF c = "U+00E9" THEN 2 ELSE 1

RECURSIVE ByteLen(_)
\* str::len: the length in bytes
ByteLen(s) == IF s = <<>> THEN 0 ELSE Utf8Len(Head(s)) + ByteLen(Tail(s))

\* str::is_char_boundary
IsCharBoundary(s, n) == \E k \in 0..Len(s) : ByteLen(SubSeq(s, 1, k)) = n

\* &s[0..n], for n a character boundary of s
SliceTo(s, n) ==
    SubSeq(s, 1, CHOOSE k \in 0..Len(s) : ByteLen(SubSeq(s, 1, k)) = n)

IdMaxLen == 8       \* line 220: id.len() <= 8
IdPrefixLen == 6    \* line 223: &id[0..6]

\* truncate_id; slicing a str off a character boundary panics
TruncateId(id) ==
    IF ByteLen(id) <= IdMaxLen
    THEN [panicked |-> FALSE, text |-> id]
    ELSE IF IsCharBoundary(id, IdPrefixLen)
         THEN [panicked |-> FALSE,
               text |-> SliceTo(id, IdPrefixLen) \o <<".", ".">>]
         ELSE [panicked |-> TRUE, text |-> <<>>]

\* The swap_ids the writer records are UUIDs in text: ASCII, one byte a
\* character.  "A" stands for one of at most IdMaxLen bytes, "B" for a
\* longer one.
IdText(i) ==
    IF i = "A" THEN [k \in 1..IdMaxLen |-> "a"]
    ELSE [k \in 1..(IdMaxLen + 1) |-> "a"]

\* render_table, lines 183-193: the loop calls truncate_id on every view
RenderTablePanics(vs) ==
    \E k \in DOMAIN vs : TruncateId(IdText(vs[k].swap_id)).panicked

\* ------------------------------------------------------------------- state

VARIABLES
    \* the environment
    home,             \* home_dir() resolves at this moment
    fileExists,       \* the database file exists at this moment
    table,            \* swap_states, in row id order; the writer only appends
    live,             \* the pool handles that are open
    \* main()
    db_path,          \* "none" or "path": Option<PathBuf>, resolved once
    previous_states,  \* HashMap<String, String>: swap_id -> state
    pool,             \* NoPool or the handle held
    pc,               \* where the loop stands: "start", "match" (line 38),
                      \* "connect" (line 42), "query" (line 52), in the
                      \* pause of "sleep" (line 79) or "sleep_c" (line 46),
                      \* or "panic"
    rows,             \* Ok(rows) of this iteration's fetch_swaps
    views,            \* what build_views returned in this iteration
    out,              \* what this iteration has printed since clear_screen
    hdrStatus,        \* the Status line of the header last drawn
    \* history
    outcome,          \* how this iteration's match ended
    prevQueryFailed,  \* the iteration before ended in a query failure
    qlen,             \* Len(table) when this iteration's query ran
    lastPolled,       \* per swap_id, its state in the last poll that had it
    failMap,          \* previous_states at the query failure just before
    needReconnect,    \* a query has failed and no connect has succeeded since
    \* build_views called on its own
    di,               \* the next record of the list
    dcall,            \* first or second call
    dmap0,            \* the map before the first call
    dmap1,            \* the map after the first call
    \* truncate_id called on its own
    tid,              \* the identifier
    tres              \* what the call returned, or that it panicked

vars == <<home, fileExists, table, live, db_path, previous_states, pool, pc,
          rows, views, out, hdrStatus, outcome, prevQueryFailed,
          qlen, lastPolled, failMap, needReconnect,
          di, dcall, dmap0, dmap1, tid, tres>>

envVars  == <<home, fileExists, table>>
diffVars == <<di, dcall, dmap0, dmap1>>
truncVars == <<tid, tres>>

NoResult == [panicked |-> FALSE, text |-> <<>>]

\* ------------------------------------------------------------------ main()

\* resolve_asb_db_path: home_dir()? and a fixed suffix
ResolveAsbDbPath(h) == IF h THEN "path" ELSE "none"

HeaderStatus_fromPool(p, e) ==
    IF pool # NoPool THEN "Connected" ELSE "Disconnected"

\* render_header: db_path.as_ref().map(|p| p.exists()).unwrap_or(false)
HeaderStatus(p, e) == IF p = "path" /\ e THEN "Connected" ELSE "Disconnected"

MatchExists_skipWhenConnected(p, e) == p = "path" /\ (e \/ pool # NoPool)

\* the guard of the first match arm: Some(ref path) if path.exists()
MatchExists(p, e) == p = "path" /\ e

AfterConnectOk_nextTick == "sleep"

\* lines 43 and 52: with the pool set, on to fetch_swaps in the same iteration
AfterConnectOk == "query"

AfterConnectErr_fallthrough == "query"

AfterConnectErr_noPause == "start"

\* lines 46-47: the pause of the connect failure, then continue
AfterConnectErr == "sleep_c"

PoolAfterQueryErr_kept(p) == p

\* line 66: pool = None
PoolAfterQueryErr(p) == NoPool

RowsIsEmpty_never(rs) == FALSE

\* line 54: rows.is_empty()
RowsIsEmpty(rs) == Len(rs) = 0

\* the handle a connect hands out: the lowest one that is not open
FreshHandle(l) == CHOOSE h \in Handles \ l : \A g \in Handles \ l : h <= g

Init ==
    /\ home \in BOOLEAN
    /\ fileExists \in BOOLEAN
    /\ table = <<>>
    /\ live = {}
    /\ db_path = ResolveAsbDbPath(home)
    /\ previous_states = EmptyMap
    /\ pool = NoPool
    /\ pc = "start"
    /\ rows = <<>>
    /\ views = <<>>
    /\ out = <<>>
    /\ hdrStatus = "Disconnected"
    /\ outcome = "none"
    /\ prevQueryFailed = FALSE
    /\ qlen = 0
    /\ lastPolled = EmptyMap
    /\ failMap = EmptyMap
    /\ needReconnect = FALSE
    /\ di = 0
    /\ dcall = 0
    /\ dmap0 = EmptyMap
    /\ dmap1 = EmptyMap
    /\ tid = <<>>
    /\ tres = NoResult

\* lines 34-36: an iteration begins, at the start of the process or when the
\* pause of the iteration before (line 79, or line 46 with its continue) is
\* over: clear_screen(); render_header(&db_path)
Header ==
    /\ pc \in {"start", "sleep", "sleep_c"}
    /\ out' = <<"clear", "header">>
    /\ hdrStatus' = HeaderStatus(db_path, fileExists)
    /\ rows' = <<>>
    /\ views' = <<>>
    /\ prevQueryFailed' = (outcome = "query_err")
    /\ outcome' = "none"
    /\ qlen' = 0
    /\ failMap' = IF outcome = "query_err" THEN failMap ELSE EmptyMap
    /\ pc' = "match"
    /\ UNCHANGED <<envVars, live, db_path, previous_states, pool, lastPolled,
                   needReconnect, diffVars, truncVars>>

\* line 39, first arm taken: on to the connect if no pool is held (line 41)
MatchPath ==
    /\ pc = "match"
    /\ MatchExists(db_path, fileExists)
    /\ pc' = IF pool = NoPool THEN "connect" ELSE "query"
    /\ UNCHANGED <<envVars, live, db_path, previous_states, pool, rows, views,
                   out, hdrStatus, outcome, prevQueryFailed, qlen, lastPolled,
                   failMap, needReconnect, diffVars, truncVars>>

MatchMissing_dropsPool ==
    /\ pc = "match"
    /\ db_path = "path"
    /\ ~MatchExists(db_path, fileExists)
    /\ out' = out \o <<"err_missing", "hint">>
    /\ outcome' = "missing"
    /\ pc' = "sleep"
    /\ pool' = NoPool
    /\ live' = {}
    /\ UNCHANGED <<envVars, db_path, previous_states, rows, views,
                   hdrStatus, prevQueryFailed, qlen, lastPolled, failMap,
                   needReconnect, diffVars, truncVars>>

\* lines 70-73: the path is resolved and nothing is there
MatchMissing ==
    /\ pc = "match"
    /\ db_path = "path"
    /\ ~MatchExists(db_path, fileExists)
    /\ out' = out \o <<"err_missing", "hint">>
    /\ outcome' = "missing"
    /\ pc' = "sleep"
    /\ UNCHANGED <<envVars, live, db_path, previous_states, pool, rows, views,
                   hdrStatus, prevQueryFailed, qlen, lastPolled, failMap,
                   needReconnect, diffVars, truncVars>>

\* lines 74-76: no path
MatchNone ==
    /\ pc = "match"
    /\ db_path = "none"
    /\ out' = out \o <<"err_nopath">>
    /\ outcome' = "nopath"
    /\ pc' = "sleep"
    /\ UNCHANGED <<envVars, live, db_path, previous_states, pool, rows, views,
                   hdrStatus, prevQueryFailed, qlen, lastPolled,
                   failMap, needReconnect, diffVars, truncVars>>

\* lines 42-43: open_read_only_pool returns Ok(p); create_if_missing(false),
\* so only a file that is there can be opened
ConnectOk ==
    /\ pc = "connect"
    /\ fileExists
    /\ Handles \ live # {}
    /\ pool' = FreshHandle(live)
    /\ live' = (live \ {pool}) \cup {pool'}
    /\ needReconnect' = FALSE
    /\ pc' = AfterConnectOk
    /\ UNCHANGED <<envVars, db_path, previous_states, rows, views, out,
                   hdrStatus, outcome, prevQueryFailed, qlen, lastPolled,
                   failMap, diffVars, truncVars>>

\* lines 44-48: open_read_only_pool returns Err
ConnectErr ==
    /\ pc = "connect"
    /\ out' = out \o <<"err_connect">>
    /\ outcome' = "connect_err"
    /\ pc' = AfterConnectErr
    /\ UNCHANGED <<envVars, live, db_path, previous_states, pool, rows, views,
                   hdrStatus, prevQueryFailed, qlen, lastPolled,
                   failMap, needReconnect, diffVars, truncVars>>

PolledIds(rs) == {rs[k].swap_id : k \in DOMAIN rs}

\* history: what the poll rs showed of every swap, over what was known before
PolledAfter(rs) ==
    [i \in (DOMAIN lastPolled) \cup PolledIds(rs) |->
        IF i \in PolledIds(rs)
        THEN (CHOOSE r \in {rs[k] : k \in DOMAIN rs} : r.swap_id = i).state
        ELSE lastPolled[i]]

\* lines 52-62: pool.as_ref().unwrap(), fetch_swaps returns Ok(rows), and
\* build_views and render_table on them; a panic ends the process
QueryOk ==
    /\ pc = "query"
    /\ IF pool = NoPool
       THEN /\ pc' = "panic"
            /\ UNCHANGED <<previous_states, rows, views, out, outcome, qlen,
                           lastPolled>>
       ELSE \E rs \in FetchSwaps(TableRead(table)) :
              /\ rows' = rs
              /\ qlen' = Len(table)
              /\ lastPolled' = PolledAfter(rs)
              /\ IF RowsIsEmpty(rs)
                 THEN /\ out' = out \o <<"empty", "blank", "watching">>
                      /\ outcome' = "ok"
                      /\ pc' = "sleep"
                      /\ UNCHANGED <<previous_states, views>>
                 ELSE LET b == BuildViews(rs, previous_states)
                      IN  /\ views' = b.views
                          /\ previous_states' = b.prev
                          /\ IF RenderTablePanics(b.views)
                             THEN /\ out' = out \o <<"table">>
                                  /\ pc' = "panic"
                                  /\ UNCHANGED outcome
                             ELSE /\ out' = out \o <<"table", "blank", "watching">>
                                  /\ outcome' = "ok"
                                  /\ pc' = "sleep"
    /\ UNCHANGED <<envVars, live, db_path, pool, hdrStatus, prevQueryFailed,
                   failMap, needReconnect, diffVars, truncVars>>

QueryErr_clearsMap ==
    /\ pc = "query"
    /\ pool # NoPool
    /\ out' = out \o <<"err_query">>
    /\ pool' = PoolAfterQueryErr(pool)
    /\ live' = IF pool' = NoPool THEN live \ {pool} ELSE live
    /\ outcome' = "query_err"
    /\ previous_states' = EmptyMap
    /\ failMap' = previous_states
    /\ needReconnect' = TRUE
    /\ pc' = "sleep"
    /\ UNCHANGED <<envVars, db_path, rows, views, hdrStatus,
                   prevQueryFailed, qlen, lastPolled, diffVars, truncVars>>

\* lines 63-67: fetch_swaps returns Err
QueryErr ==
    /\ pc = "query"
    /\ pool # NoPool
    /\ out' = out \o <<"err_query">>
    /\ pool' = PoolAfterQueryErr(pool)
    /\ live' = IF pool' = NoPool THEN live \ {pool} ELSE live
    /\ outcome' = "query_err"
    /\ failMap' = previous_states
    /\ needReconnect' = TRUE
    /\ pc' = "sleep"
    /\ UNCHANGED <<envVars, db_path, previous_states, rows, views, hdrStatus,
                   prevQueryFailed, qlen, lastPolled, diffVars, truncVars>>

\* ------------------------------------------------------------- environment

progVars == <<live, db_path, previous_states, pool, pc, rows, views, out,
              hdrStatus, outcome, prevQueryFailed, qlen,
              lastPolled, failMap, needReconnect, diffVars, truncVars>>

\* the writer (or anybody) creates the database file
FileCreate ==
    /\ pc # "diff"
    /\ ~fileExists
    /\ fileExists' = TRUE
    /\ UNCHANGED <<home, table, progVars>>

\* the file is moved away
FileRemove ==
    /\ pc # "diff"
    /\ fileExists
    /\ fileExists' = FALSE
    /\ UNCHANGED <<home, table, progVars>>

\* the writer records a transition: INSERT INTO swap_states
WriterAppend ==
    /\ pc # "diff"
    /\ fileExists
    /\ Len(table) < MaxRows
    /\ \E r \in SwapRow : table' = Append(table, r)
    /\ UNCHANGED <<home, fileExists, progVars>>

\* the home directory becomes resolvable while the process runs
HomeChange ==
    /\ pc # "diff"
    /\ ~home
    /\ home' = TRUE
    /\ UNCHANGED <<fileExists, table, progVars>>

\* the steps of main()
Tick ==
    \/ Header \/ MatchPath \/ MatchMissing \/ MatchNone
    \/ ConnectErr \/ ConnectOk
    \/ QueryErr \/ QueryOk

Next ==
    \/ Header \/ MatchPath \/ MatchMissing \/ MatchNone
    \/ ConnectOk \/ ConnectErr
    \/ QueryOk \/ QueryErr
    \/ FileCreate \/ FileRemove \/ WriterAppend \/ HomeChange

Spec == Init /\ [][Next]_vars

\* ------------------------------------------- build_views, called on its own

\* Any list of records, repeated swap_ids included, against any map.
DiffInit ==
    /\ pc = "diff"
    /\ rows \in SeqsUpTo(SwapRow, MaxLen)
    /\ previous_states \in Maps
    /\ dmap0 = previous_states
    /\ dmap1 = EmptyMap
    /\ di = 1
    /\ dcall = 1
    /\ views = <<>>
    /\ home = TRUE
    /\ fileExists = TRUE
    /\ table = <<>>
    /\ live = {}
    /\ db_path = "path"
    /\ pool = NoPool
    /\ out = <<>>
    /\ hdrStatus = "Disconnected"
    /\ outcome = "none"
    /\ prevQueryFailed = FALSE
    /\ qlen = 0
    /\ lastPolled = EmptyMap
    /\ failMap = EmptyMap
    /\ needReconnect = FALSE
    /\ tid = <<>>
    /\ tres = NoResult

\* lines 128-139: the closure takes the next record
DiffRecord ==
    /\ pc = "diff"
    /\ di <= Len(rows)
    /\ LET s == BuildStep(rows[di], previous_states)
       IN  /\ views' = Append(views, s.view)
           /\ previous_states' = s.prev
    /\ di' = di + 1
    /\ UNCHANGED <<envVars, live, db_path, pool, pc, rows, out, hdrStatus,
                   outcome, prevQueryFailed, qlen, lastPolled, failMap,
                   needReconnect, dcall, dmap0, dmap1, truncVars>>

\* the first call has returned: the same list is given to a second call
DiffAgain ==
    /\ pc = "diff"
    /\ dcall = 1
    /\ di > Len(rows)
    /\ dcall' = 2
    /\ di' = 1
    /\ views' = <<>>
    /\ dmap1' = previous_states
    /\ UNCHANGED <<envVars, live, db_path, previous_states, pool, pc, rows,
                   out, hdrStatus, outcome, prevQueryFailed, qlen, lastPolled,
                   failMap, needReconnect, dmap0, truncVars>>

DiffNext == DiffRecord \/ DiffAgain

DiffSpec == DiffInit /\ [][DiffNext]_vars

\* ------------------------------------------- truncate_id, called on its own

\* Any identifier of up to MaxIdChars characters.
TruncInit ==
    /\ pc = "trunc"
    /\ tid \in SeqsUpTo(Chars, MaxIdChars)
    /\ tres = NoResult
    /\ rows = <<>>
    /\ previous_states = EmptyMap
    /\ dmap0 = EmptyMap
    /\ dmap1 = EmptyMap
    /\ di = 0
    /\ dcall = 0
    /\ views = <<>>
    /\ home = TRUE
    /\ fileExists = TRUE
    /\ table = <<>>
    /\ live = {}
    /\ db_path = "path"
    /\ pool = NoPool
    /\ out = <<>>
    /\ hdrStatus = "Disconnected"
    /\ outcome = "none"
    /\ prevQueryFailed = FALSE
    /\ qlen = 0
    /\ lastPolled = EmptyMap
    /\ failMap = EmptyMap
    /\ needReconnect = FALSE

\* lines 219-225: the call
TruncCall ==
    /\ pc = "trunc"
    /\ tres' = TruncateId(tid)
    /\ pc' = "trunc_done"
    /\ UNCHANGED <<envVars, live, db_path, previous_states, pool, rows, views,
                   out, hdrStatus, outcome, prevQueryFailed, qlen, lastPolled,
                   failMap, needReconnect, diffVars, tid>>

TruncNext == TruncCall

TruncSpec == TruncInit /\ [][TruncNext]_vars

\* ------------------------------------------------------------------ claims

Printed(e) == \E k \in DOMAIN out : out[k] = e

\* the table as the query of this iteration saw it
TableAtQuery == SubSeq(table, 1, qlen)

SwapIdsOf(t) == {t[i].swap_id : i \in DOMAIN t}

\* the row of swap_id s with the highest row id
HighestRow(t, s) ==
    t[CHOOSE i \in DOMAIN t :
         /\ t[i].swap_id = s
         /\ \A j \in DOMAIN t : t[j].swap_id = s => j <= i]

\* C1: a successful fetch_swaps returns exactly one record for each of the N
\* swap_ids of the table, and that record is the swap_id's transition with
\* the highest row id.
C1_LatestPerSwap ==
    outcome = "ok" =>
        LET t == TableAtQuery
        IN  /\ Len(rows) = Cardinality(SwapIdsOf(t))
            /\ \A s \in SwapIdsOf(t) :
                  \E k \in DOMAIN rows :
                     /\ rows[k].swap_id = s
                     /\ rows[k].state = HighestRow(t, s).state
                     /\ rows[k].entered_at = HighestRow(t, s).entered_at

\* two swaps, one of them with two transitions that differ, and the poll
\* has returned
C1_Witness ==
    /\ outcome = "ok"
    /\ qlen = 3
    /\ Len(rows) = 2
    /\ \E i, j \in 1..qlen :
          /\ i < j
          /\ table[i].swap_id = table[j].swap_id
          /\ table[i].state # table[j].state

\* C2: in build_views a record is changed exactly if its swap_id was a key
\* of the map before the record was processed and the state mapped to it
\* differs from the record's; afterwards the map holds the record's state for
\* the swap_id, whatever changed was.
C2_ChangedIff ==
    [][di' = di + 1 =>
          LET r == rows[di]
          IN  /\ views'[di].changed =
                    (/\ r.swap_id \in DOMAIN previous_states
                     /\ previous_states[r.swap_id] # r.state)
              /\ r.swap_id \in DOMAIN previous_states'
              /\ previous_states'[r.swap_id] = r.state]_vars

\* one call has marked a record changed and has left another, whose swap_id
\* was a key of the map from the start, unmarked
C2_Witness ==
    /\ pc = "diff"
    /\ dcall = 1
    /\ \E a, b \in DOMAIN views :
          /\ views[a].changed
          /\ ~views[b].changed
          /\ views[b].swap_id \in DOMAIN dmap0
          /\ views[a].swap_id # views[b].swap_id

\* C3: over the successful polls that show a swap_id, its changed flag is
\* false on the first and afterwards says whether its state differs from the
\* state of the poll before, whatever other swap_ids the polls show.
C3_ChangedAcrossPolls ==
    [][(pc = "query" /\ outcome' = "ok" /\ rows' # <<>>) =>
          /\ Len(views') = Len(rows')
          /\ \A k \in DOMAIN rows' :
                /\ views'[k].swap_id = rows'[k].swap_id
                /\ views'[k].state = rows'[k].state
                /\ views'[k].changed =
                      (/\ rows'[k].swap_id \in DOMAIN lastPolled
                       /\ lastPolled[rows'[k].swap_id] # rows'[k].state)]_vars

\* a poll shows one swap whose state has changed since the poll before next
\* to a swap it has not shown before
C3_Witness ==
    /\ outcome = "ok"
    /\ Len(views) = 2
    /\ \E a, b \in DOMAIN views :
          /\ views[a].changed
          /\ ~views[b].changed
          /\ \A i \in 1..(qlen - 1) : table[i].swap_id # views[b].swap_id

DiffDone(n) == pc = "diff" /\ dcall = n /\ di > Len(rows)

NoneChanged == \A k \in DOMAIN views : ~views[k].changed

OneStatePerId(rs) ==
    \A a, b \in DOMAIN rs : rs[a].swap_id = rs[b].swap_id => rs[a].state = rs[b].state

C5_OneHandle ==
    /\ Cardinality(live) <= 1
    /\ live = IF pool = NoPool THEN {} ELSE {pool}
    /\ outcome = "query_err" => pool = NoPool
    /\ pc = "query" => ~needReconnect

\* the iteration after a query failure stands before its query with a handle
C5_Witness ==
    /\ prevQueryFailed
    /\ pc = "query"
    /\ pool # NoPool

\* C6: the iteration after a query failure starts without a handle, once it
\* has connected it goes on to the query, and if the query succeeds it
\* renders the result, the changed flags taken against the map as it was
\* before the failure.
C6_RecoversNextTick ==
    prevQueryFailed =>
        /\ pc = "match" => pool = NoPool
        /\ pool # NoPool => pc = "query" \/ outcome = "ok"
        /\ outcome = "ok" =>
              /\ ~needReconnect
              /\ IF rows = <<>>
                 THEN Printed("empty")
                 ELSE /\ Printed("table")
                      /\ Len(views) = Len(rows)
                      /\ \A k \in DOMAIN rows :
                            views[k].changed =
                               (/\ rows[k].swap_id \in DOMAIN failMap
                                /\ failMap[rows[k].swap_id] # rows[k].state)

\* the query failed, the next iteration connected, queried and shows a change
\* against what was seen before the failure
C6_Witness ==
    /\ prevQueryFailed
    /\ outcome = "ok"
    /\ pc = "sleep"
    /\ \E k \in DOMAIN views : views[k].changed

PcRank ==
    [p \in {"start", "match", "connect", "query", "sleep", "sleep_c", "panic",
            "diff", "trunc", "trunc_done"} |->
        CASE p = "start" -> 0
          [] p = "match" -> 1
          [] p = "connect" -> 2
          [] p = "query" -> 3
          [] OTHER -> 4]

C8_SortedDesc ==
    outcome = "ok" =>
        /\ \A k \in DOMAIN rows :
              k < Len(rows) => TextGeq(rows[k].entered_at, rows[k + 1].entered_at)
        /\ \A k \in DOMAIN views :
              /\ views[k].swap_id = rows[k].swap_id
              /\ views[k].entered_at = rows[k].entered_at
              /\ k < Len(views) =>
                    TextGeq(views[k].entered_at, views[k + 1].entered_at)

\* two rows with different entered_at, the later inserted one not first
C8_Witness ==
    /\ outcome = "ok"
    /\ Len(views) = 2
    /\ views[1].entered_at = <<9>>
    /\ views[2].entered_at = <<1, 0>>
    /\ table[qlen].swap_id = views[2].swap_id

\* C9: a query of the empty table that succeeds returns no rows, keeps the
\* handle and prints the empty-state message and no table.
C9_EmptyTable ==
    (outcome = "ok" /\ qlen = 0) =>
        /\ rows = <<>>
        /\ views = <<>>
        /\ pool # NoPool
        /\ live = {pool}
        /\ Printed("empty")
        /\ ~Printed("table")
        /\ ~Printed("err_query")

\* the empty table has been polled with success
C9_Witness ==
    /\ outcome = "ok"
    /\ qlen = 0
    /\ pc = "sleep"
    /\ Printed("empty")

\* C10: every iteration decides by the existence of the file at that moment:
\* if it is there the iteration goes on to connect (or to query, with a pool
\* in hand), and if it is not the iteration reports the missing database.
C10_ExistenceEachTick ==
    [][(pc = "match" /\ pc' # "match" /\ db_path = "path") =>
          IF fileExists
          THEN pc' = IF pool = NoPool THEN "connect" ELSE "query"
          ELSE /\ pc' = "sleep"
               /\ outcome' = "missing"
               /\ out' = out \o <<"err_missing", "hint">>]_vars

\* the database is reported missing after a poll has already succeeded
C10_Witness ==
    /\ outcome = "missing"
    /\ Printed("err_missing")
    /\ lastPolled # EmptyMap
    /\ pool # NoPool

\* C11: an iteration that begins with the home directory resolvable, after an
\* iteration that reported the unresolved data directory, does not report it
\* again: it goes on to look for the database file.
C11_NoPathRetried ==
    [][(/\ pc \in {"sleep", "sleep_c"}
        /\ pc' = "match"
        /\ Printed("err_nopath")
        /\ home) => ~(ENABLED MatchNone)']_vars

\* C12: after every successful poll the keys of the map are the swap_ids the
\* poll rendered, and every key maps to the state rendered for it.
C12_MapIsLastPoll ==
    outcome = "ok" =>
        /\ DOMAIN previous_states = PolledIds(rows)
        /\ Len(views) = Len(rows)
        /\ \A k \in DOMAIN views :
              /\ views[k].swap_id = rows[k].swap_id
              /\ previous_states[views[k].swap_id] = views[k].state

\* a poll has rendered two swaps, one of them with a changed state
C12_Witness ==
    /\ outcome = "ok"
    /\ pc = "sleep"
    /\ Len(views) = 2
    /\ \E k \in DOMAIN views : views[k].changed
    /\ Cardinality(DOMAIN previous_states) = 2

\* C13: no step removes a key from the map, and every key is a swap_id that
\* some successful poll so far has returned.
C13_MapOnlyGrows ==
    [][/\ DOMAIN previous_states \subseteq DOMAIN previous_states'
       /\ DOMAIN previous_states' \subseteq DOMAIN lastPolled']_vars

\* the map holds two swaps while an iteration reports the database missing
C13_Witness ==
    /\ Cardinality(DOMAIN previous_states) = 2
    /\ outcome = "missing"
    /\ pc = "sleep"

\* C14: truncate_id returns an identifier of at most 8 characters as it is,
\* and of a longer one the first 6 characters and the two of the ellipsis:
\* never more than 8 characters.
C14_TruncateId ==
    pc = "trunc_done" =>
        /\ ~tres.panicked
        /\ Len(tid) <= IdMaxLen => tres.text = tid
        /\ Len(tid) > IdMaxLen =>
              tres.text = SubSeq(tid, 1, IdPrefixLen) \o <<".", ".">>
        /\ Len(tres.text) <= IdMaxLen

InPause == pc \in {"sleep", "sleep_c"}

\* C15: a failed connect prints its error, leaves the pool unset and the map
\* as it was and goes to its pause, from where the next iteration begins
\* without a pool, so that with the file there it connects again; the loop
\* stands before a query only with a pool.
C15_ConnectFailure ==
    [][/\ (pc = "connect" /\ outcome' = "connect_err") =>
             /\ pool' = NoPool
             /\ live' = {}
             /\ previous_states' = previous_states
             /\ rows' = <<>>
             /\ out' = <<"clear", "header", "err_connect">>
             /\ pc' = "sleep_c"
       /\ (pc = "sleep_c" /\ pc' # pc) =>
             /\ pc' = "match"
             /\ pool' = NoPool
             /\ fileExists' => (ENABLED (MatchPath /\ pc' = "connect"))'
       /\ pc' = "query" => pool' # NoPool]_vars

\* the file is there, the connect has failed, and the map of the polls
\* before is still held
C15_Witness ==
    /\ pc = "sleep_c"
    /\ outcome = "connect_err"
    /\ fileExists
    /\ previous_states # EmptyMap
    /\ pool = NoPool

\* C16: what an iteration prints begins with the clearing of the screen and
\* the header, once each; every branch of the match ends in a pause; and an
\* iteration begins only out of one pause (or the start of the process).
C16_HeaderAndPause ==
    [][/\ out' # <<>> =>
             /\ Len(out') >= 2
             /\ out'[1] = "clear"
             /\ out'[2] = "header"
             /\ \A k \in 3..Len(out') : out'[k] \notin {"clear", "header"}
       /\ (pc' = "match" /\ pc # "match") =>
             /\ InPause \/ (pc = "start" /\ out = <<>>)
             /\ out' = <<"clear", "header">>
       /\ (InPause /\ pc' # pc) => pc' = "match"
       /\ (outcome' # outcome /\ outcome' # "none") => InPause']_vars

\* the pause of the connect failure, with its error under the header
C16_Witness ==
    /\ pc = "sleep_c"
    /\ out = <<"clear", "header", "err_connect">>
    /\ prevQueryFailed

\* C17: the header says Connected exactly if the path is resolved and the
\* file exists when the header is drawn, whatever the pool is.
C17_HeaderStatus ==
    [][/\ (pc' = "match" /\ pc # "match") =>
             hdrStatus' = IF db_path = "path" /\ fileExists
                          THEN "Connected" ELSE "Disconnected"
       /\ hdrStatus' # hdrStatus => (pc' = "match" /\ pc # "match")]_vars

\* the header said Disconnected and the iteration polled with success on the
\* pool it held
C17_Witness ==
    /\ hdrStatus = "Disconnected"
    /\ outcome = "ok"
    /\ pool # NoPool
    /\ rows # <<>>

\* C18: a successful poll shows every swap the table holds when the query
\* runs, each in the state of its latest transition then, whatever the
\* writer has appended since the poll before.
C18_FreshEachPoll ==
    [][(pc = "query" /\ outcome' = "ok") =>
          /\ PolledIds(rows') = SwapIdsOf(table)
          /\ Len(views') = Len(rows')
          /\ \A k \in DOMAIN views' :
                /\ views'[k].swap_id = rows'[k].swap_id
                /\ views'[k].state = HighestRow(table, rows'[k].swap_id).state
                /\ views'[k].entered_at =
                      HighestRow(table, rows'[k].swap_id).entered_at]_vars

\* a second poll shows a transition appended after the first
C18_Witness ==
    /\ outcome = "ok"
    /\ qlen = Len(table)
    /\ qlen >= 2
    /\ \E k \in DOMAIN views :
          /\ views[k].changed
          /\ views[k].state = table[qlen].state
          /\ views[k].swap_id = table[qlen].swap_id

\* C19: only a successful query with rows changes the map, and the map is at
\* all times what the successful polls so far have last shown of each swap;
\* the poll after a query failure flags a swap exactly if its state differs
\* from the one the map held when the query failed.
C19_MapFrame ==
    [][/\ previous_states' # previous_states =>
             (pc = "query" /\ outcome' = "ok" /\ rows' # <<>>)
       /\ previous_states' = lastPolled'
       /\ (pc = "query" /\ outcome' = "ok" /\ prevQueryFailed) =>
             \A k \in DOMAIN views' :
                views'[k].changed =
                   (/\ views'[k].swap_id \in DOMAIN failMap
                    /\ failMap[views'[k].swap_id] # views'[k].state)]_vars

\* a query failure has left the map of two swaps as it was
C19_Witness ==
    /\ outcome = "query_err"
    /\ pc = "sleep"
    /\ Cardinality(DOMAIN previous_states) = 2
    /\ previous_states = failMap

\* C20: the pool is given up only by a query failure; an iteration that finds
\* the file missing keeps it, and an iteration that finds the file with a
\* pool in hand goes to the query on that pool, not to a connect.
C20_PoolKept ==
    [][/\ (pool # NoPool /\ pool' # pool) =>
             (pc = "query" /\ outcome' = "query_err")
       /\ live' # live => (pc = "connect" \/ pc = "query")
       /\ pc' = "connect" => pool' = NoPool
       /\ (pc = "match" /\ pc' # pc /\ pool # NoPool) =>
             /\ pool' = pool
             /\ fileExists => pc' = "query"
             /\ ~fileExists => outcome' = "missing"]_vars

\* the database was reported missing, the pool is still held and the file is
\* back during the pause
C20_Witness ==
    /\ outcome = "missing"
    /\ pc = "sleep"
    /\ pool # NoPool
    /\ live = {pool}
    /\ fileExists

====
